---- MODULE Spec2Model ----
(***************************************************************************)
(* Model of controllers/genreController.js: the eight Genre request        *)
(* handlers, the Genre and Book collections they read and write, and the   *)
(* responses they produce.                                                 *)
(*                                                                         *)
(* A name is a sequence of character codes, so that trim, escape, the      *)
(* length check, the collation and the sort order are computed.            *)
(* A handler advances one database operation at a time: everything up to   *)
(* and including its first awaited operation is one step, every further    *)
(* awaited operation is another.  Other requests may run between steps.    *)
(* `last` is the request completed by the step that led to the current     *)
(* state, with the response calls it made; Deliver hands it to the client  *)
(* before the event loop runs the next step.                               *)
(***************************************************************************)
EXTENDS Naturals, Sequences, FiniteSets

VARIABLES genres, books, nextId, inflight, last

vars == <<genres, books, nextId, inflight, last>>

\* ---------------------------------------------------------------- bounds
MaxIds == 2
MaxBooks == 1
MaxPending == 1

GenreIds == 1..MaxIds
BookIds == 1..MaxBooks
Slots == 1..MaxPending

\* Submitted names: " ab ", "abc", " ABC", "a&b"
RawNames ==
  { <<32, 97, 98, 32>>,
    <<97, 98, 99>>,
    <<32, 65, 66, 67>>,
    <<97, 38, 98>> }

\* ------------------------------------------------- validation, sanitizing
MinLength == 3

ErrMsg == "Genre name must contain at least 3 characters"

WhiteSpace == {9, 10, 11, 12, 13, 32}

RECURSIVE LTrim(_)
LTrim(s) ==
  IF s # <<>> /\ Head(s) \in WhiteSpace THEN LTrim(Tail(s)) ELSE s

RECURSIVE RTrim(_)
RTrim(s) ==
  IF s # <<>> /\ s[Len(s)] \in WhiteSpace
  THEN RTrim(SubSeq(s, 1, Len(s) - 1))
  ELSE s

Trim(s) == RTrim(LTrim(s))

\* escape(): & < > " ' / \ ` become HTML entities
EscapeChar(c) ==
  CASE c = 38 -> <<38, 97, 109, 112, 59>>
    [] c = 34 -> <<38, 113, 117, 111, 116, 59>>
    [] c = 39 -> <<38, 35, 120, 50, 55, 59>>
    [] c = 60 -> <<38, 108, 116, 59>>
    [] c = 62 -> <<38, 103, 116, 59>>
    [] c = 47 -> <<38, 35, 120, 50, 70, 59>>
    [] c = 92 -> <<38, 35, 120, 53, 67, 59>>
    [] c = 96 -> <<38, 35, 57, 54, 59>>
    [] OTHER -> <<c>>

RECURSIVE Escape(_)
Escape(s) ==
  IF s = <<>> THEN <<>> ELSE EscapeChar(Head(s)) \o Escape(Tail(s))

\* req.body.name after the chain .trim().isLength({min: 3}).escape()
Sanitize(raw) == Escape(Trim(raw))

IsLengthMin2(raw) == Len(Trim(raw)) >= 2

\* isLength runs on the trimmed value, before escape
IsLength(raw) == Len(Trim(raw)) >= MinLength

\* validationResult(req).array()
ValidationErrors(raw) == IF IsLength(raw) THEN <<>> ELSE <<ErrMsg>>

\* ------------------------------------------------------ collation, order
FoldChar(c) == IF c >= 65 /\ c <= 90 THEN c + 32 ELSE c

\* collation {locale: "en", strength: 2}: letter case is not significant
Fold(s) == [i \in 1..Len(s) |-> FoldChar(s[i])]

ExactMatch(a, b) == a = b

CollationMatch(a, b) == Fold(a) = Fold(b)

\* sort({name: 1}) with no collation: code-point order
RECURSIVE NameLeq(_, _)
NameLeq(a, b) ==
  IF a = <<>> THEN TRUE
  ELSE IF b = <<>> THEN FALSE
  ELSE IF Head(a) < Head(b) THEN TRUE
  ELSE IF Head(a) > Head(b) THEN FALSE
  ELSE NameLeq(Tail(a), Tail(b))

\* ------------------------------------------------------------ collections
Null == [id |-> 0, name |-> <<>>]

Ids(store) == {store[i].id : i \in DOMAIN store}

\* Genre.findById(id)
FindById(store, id) ==
  IF \E i \in DOMAIN store : store[i].id = id
  THEN store[CHOOSE i \in DOMAIN store : store[i].id = id]
  ELSE Null

\* Genre.findOne({name}).collation(...): the first match in natural order
FindOneByName(store, name) ==
  LET hits == {i \in DOMAIN store : CollationMatch(store[i].name, name)}
  IN IF hits = {} THEN Null
     ELSE store[CHOOSE i \in hits : \A j \in hits : i <= j]

\* genre.save() of a new document
Save(store, id, name) == Append(store, [id |-> id, name |-> name])

SaveAsNew(store, id, name) ==
  IF Len(store) < MaxIds
  THEN Append(store, [id |-> MaxIds + 1, name |-> name])
  ELSE store

\* Genre.findByIdAndUpdate(id, {name, _id: id}, {})
FindByIdAndUpdate(store, id, name) ==
  [i \in DOMAIN store |->
     IF store[i].id = id THEN [id |-> id, name |-> name] ELSE store[i]]

RECURSIVE Without(_, _)
Without(store, id) ==
  IF store = <<>> THEN <<>>
  ELSE IF Head(store).id = id THEN Without(Tail(store), id)
  ELSE <<Head(store)>> \o Without(Tail(store), id)

\* Genre.findByIdAndDelete(id)
FindByIdAndDelete(store, id) == Without(store, id)

\* Book.find({genre: id})
BooksInGenre(bs, id) == {b \in bs : id \in b.genre}

IsSortedByName(l) ==
  \A i \in DOMAIN l : \A j \in DOMAIN l : i < j => NameLeq(l[i].name, l[j].name)

Orders(store) ==
  LET n == Len(store)
      perms == {p \in [1..n -> 1..n] : \A i, j \in 1..n : i # j => p[i] # p[j]}
  IN {[i \in 1..n |-> store[p[i]]] : p \in perms}

Unsorted(store) == {store}

\* Genre.find().sort({name: 1}): every order of the records that ascends by
\* name (records with equal names come in an order the database chooses)
SortByName(store) == {l \in Orders(store) : IsSortedByName(l)}

\* ------------------------------------------------------------- responses
\* the virtual `url` of a Genre
GenreUrl(id) == [path |-> "/catalog/genre/", id |-> id]

ListUrl == [path |-> "/catalog/genres", id |-> 0]

Resp(kind, what, id, status, name, errors, list) ==
  [kind |-> kind, what |-> what, id |-> id, status |-> status,
   name |-> name, errors |-> errors, list |-> list]

\* res.render(view, {genre, errors, genre_list}); the title and the Books
\* handed to a view are left out, no handler branches on them afterwards
Render(view, genre, errors, list) ==
  Resp("render", view, genre.id, 0, genre.name, errors, list)

\* res.redirect(url)
Redirect(url) == Resp("redirect", url.path, url.id, 0, <<>>, <<>>, <<>>)

\* next(err)
NextErr(msg, status) == Resp("next", msg, 0, status, <<>>, <<>>, <<>>)

Completed(op, id, genreid, name, resp) ==
  [op |-> op, id |-> id, genreid |-> genreid, name |-> name, resp |-> resp]

NoLast == Completed("none", 0, 0, <<>>, <<>>)

Idle == [op |-> "idle", id |-> 0, genreid |-> 0, name |-> <<>>]

Busy == {r \in Slots : inflight[r] # Idle}

Quiet == Busy = {}

\* the event loop runs one step at a time, the previous response written out
Ready == last = NoLast

\* the slot a request that has to wait for a second operation is kept in
FreeSlot(r) == inflight[r] = Idle /\ \A q \in Slots : q < r => inflight[q] # Idle

PendingSaves == Cardinality({r \in Slots : inflight[r].op = "genre_create_post"})

Init ==
  /\ genres = <<>>
  /\ books = {}
  /\ nextId = 1
  /\ inflight = [r \in Slots |-> Idle]
  /\ last = NoLast

\* ---------------------------------------------------------------- handlers
\* exports.genre_list
GenreList ==
  /\ Ready
  /\ \E l \in SortByName(genres) :
       last' = Completed("genre_list", 0, 0, <<>>,
                         <<Render("genre_list", Null, <<>>, l)>>)
  /\ UNCHANGED <<genres, books, nextId, inflight>>

DetailResponseNoReturn(genre) ==
  IF genre = Null
  THEN <<NextErr("Genre not found", 404), Render("genre_detail", genre, <<>>, <<>>)>>
  ELSE <<Render("genre_detail", genre, <<>>, <<>>)>>

DetailResponse(genre) ==
  IF genre = Null
  THEN <<NextErr("Genre not found", 404)>>
  ELSE <<Render("genre_detail", genre, <<>>, <<>>)>>

\* exports.genre_detail; of the two lookups joined by Promise.all only the
\* Genre decides the response
GenreDetail(id) ==
  /\ Ready
  /\ last' = Completed("genre_detail", id, 0, <<>>,
                       DetailResponse(FindById(genres, id)))
  /\ UNCHANGED <<genres, books, nextId, inflight>>

\* exports.genre_create_get
GenreCreateGet ==
  /\ Ready
  /\ last' = Completed("genre_create_get", 0, 0, <<>>,
                       <<Render("genre_form", Null, <<>>, <<>>)>>)
  /\ UNCHANGED <<genres, books, nextId, inflight>>

\* exports.genre_create_post, up to and including findOne.  The document
\* built by new Genre() gets its identifier here; identifiers are opaque and
\* unique, so the model draws it when the document is saved (0 until then).
GenreCreatePost(raw) ==
  /\ Ready
  /\ LET name == Sanitize(raw)
         errors == ValidationErrors(raw)
         genreExists == FindOneByName(genres, name)
     IN IF errors # <<>>
        THEN /\ last' = Completed("genre_create_post", 0, 0, raw,
                          <<Render("genre_form", [id |-> 0, name |-> name], errors, <<>>)>>)
             /\ UNCHANGED <<genres, books, nextId, inflight>>
        ELSE IF genreExists # Null
        THEN /\ last' = Completed("genre_create_post", 0, 0, raw,
                                  <<Redirect(GenreUrl(genreExists.id))>>)
             /\ UNCHANGED <<genres, books, nextId, inflight>>
        ELSE /\ nextId + PendingSaves <= MaxIds
             /\ \E r \in Slots :
                  /\ FreeSlot(r)
                  /\ inflight' = [inflight EXCEPT ![r] =
                       [op |-> "genre_create_post", id |-> 0, genreid |-> 0, name |-> raw]]
             /\ last' = NoLast
             /\ UNCHANGED <<genres, books, nextId>>

\* exports.genre_create_post, from genre.save()
GenreCreateSave(r) ==
  /\ Ready
  /\ inflight[r].op = "genre_create_post"
  /\ genres' = Save(genres, nextId, Sanitize(inflight[r].name))
  /\ nextId' = nextId + 1
  /\ inflight' = [inflight EXCEPT ![r] = Idle]
  /\ last' = Completed("genre_create_post", 0, 0, inflight[r].name,
                       <<Redirect(GenreUrl(nextId))>>)
  /\ UNCHANGED books

\* exports.genre_delete_get: the null branch redirects and does not return,
\* so the render below it runs as well
GenreDeleteGet(id) ==
  /\ Ready
  /\ LET genre == FindById(genres, id)
         redirected == IF genre = Null THEN <<Redirect(ListUrl)>> ELSE <<>>
     IN /\ last' = Completed("genre_delete_get", id, 0, <<>>,
                      redirected \o <<Render("genre_delete", genre, <<>>, <<>>)>>)
        /\ UNCHANGED <<genres, books, nextId, inflight>>

\* exports.genre_delete_post, up to and including the two lookups: the Books
\* of req.params.id decide, the Genre only goes to the view
GenreDeletePost(id, genreid) ==
  /\ Ready
  /\ LET genre == FindById(genres, id)
         allBooksInGenre == BooksInGenre(books, id)
     IN IF Cardinality(allBooksInGenre) > 0
        THEN /\ last' = Completed("genre_delete_post", id, genreid, <<>>,
                                  <<Render("genre_delete", genre, <<>>, <<>>)>>)
             /\ UNCHANGED <<genres, books, nextId, inflight>>
        ELSE /\ \E r \in Slots :
                  /\ FreeSlot(r)
                  /\ inflight' = [inflight EXCEPT ![r] =
                       [op |-> "genre_delete_post", id |-> id, genreid |-> genreid,
                        name |-> <<>>]]
             /\ last' = NoLast
             /\ UNCHANGED <<genres, books, nextId>>

DeleteUnlessReferenced(store, bs, genreid) ==
  IF BooksInGenre(bs, genreid) = {} THEN FindByIdAndDelete(store, genreid) ELSE store

\* what the second step of genre_delete_post leaves in the Genre collection
DeleteStep(store, bs, genreid) == FindByIdAndDelete(store, genreid)

\* exports.genre_delete_post, from findByIdAndDelete(req.body.genreid)
GenreDeleteRemove(r) ==
  /\ Ready
  /\ inflight[r].op = "genre_delete_post"
  /\ genres' = DeleteStep(genres, books, inflight[r].genreid)
  /\ inflight' = [inflight EXCEPT ![r] = Idle]
  /\ last' = Completed("genre_delete_post", inflight[r].id, inflight[r].genreid,
                       <<>>, <<Redirect(ListUrl)>>)
  /\ UNCHANGED <<books, nextId>>

\* exports.genre_update_get
GenreUpdateGet(id) ==
  /\ Ready
  /\ LET genre == FindById(genres, id)
     IN /\ last' = Completed("genre_update_get", id, 0, <<>>,
                      IF genre = Null
                      THEN <<NextErr("Book not found", 404)>>
                      ELSE <<Render("genre_form", genre, <<>>, <<>>)>>)
        /\ UNCHANGED <<genres, books, nextId, inflight>>

\* exports.genre_update_post; findByIdAndUpdate with options {} returns the
\* document as it was before the update, or null
GenreUpdatePost(id, raw) ==
  /\ Ready
  /\ LET name == Sanitize(raw)
         errors == ValidationErrors(raw)
         updatedGenre == FindById(genres, id)
     IN IF errors # <<>>
        THEN /\ last' = Completed("genre_update_post", id, 0, raw,
                          <<Render("genre_form", [id |-> id, name |-> name], errors, <<>>)>>)
             /\ UNCHANGED <<genres, books, nextId, inflight>>
        ELSE /\ genres' = FindByIdAndUpdate(genres, id, name)
             \* updatedGenre.url of null throws; the async wrapper passes it to next
             /\ last' = Completed("genre_update_post", id, 0, raw,
                          IF updatedGenre = Null
                          THEN <<NextErr("TypeError", 0)>>
                          ELSE <<Redirect(GenreUrl(updatedGenre.id))>>)
             /\ UNCHANGED <<books, nextId, inflight>>

\* ------------------------------------------------------------ environment
\* the Book controller: a Book is saved with genres picked among those stored
AddBook(b, gs) ==
  /\ Ready
  /\ \A x \in books : x.id # b
  /\ gs # {}
  /\ gs \subseteq Ids(genres)
  /\ books' = books \cup {[id |-> b, genre |-> gs]}
  /\ last' = NoLast
  /\ UNCHANGED <<genres, nextId, inflight>>

RemoveBook(b) ==
  /\ Ready
  /\ \E x \in books : x.id = b
  /\ books' = {x \in books : x.id # b}
  /\ last' = NoLast
  /\ UNCHANGED <<genres, nextId, inflight>>

\* ---------------------------------------------------------- specification
\* the response of the completed request goes out
Deliver ==
  /\ last # NoLast
  /\ last' = NoLast
  /\ UNCHANGED <<genres, books, nextId, inflight>>

\* requests interleave at their awaited database operations
Next ==
  \/ GenreList
  \/ \E id \in GenreIds : GenreDetail(id)
  \/ GenreCreateGet
  \/ \E raw \in RawNames : GenreCreatePost(raw)
  \/ \E r \in Slots : GenreCreateSave(r)
  \/ \E id \in GenreIds : GenreDeleteGet(id)
  \/ \E id \in GenreIds : \E genreid \in GenreIds : GenreDeletePost(id, genreid)
  \/ \E r \in Slots : GenreDeleteRemove(r)
  \/ \E id \in GenreIds : GenreUpdateGet(id)
  \/ \E id \in GenreIds : \E raw \in RawNames : GenreUpdatePost(id, raw)
  \/ \E b \in BookIds : \E g \in GenreIds : AddBook(b, {g})
  \/ \E b \in BookIds : RemoveBook(b)
  \/ Deliver

Spec == Init /\ [][Next]_vars

\* one request at a time: nothing else starts while a request is in flight
SeqNext ==
  \/ Quiet /\ GenreList
  \/ Quiet /\ \E id \in GenreIds : GenreDetail(id)
  \/ Quiet /\ GenreCreateGet
  \/ Quiet /\ \E raw \in RawNames : GenreCreatePost(raw)
  \/ \E r \in Slots : GenreCreateSave(r)
  \/ Quiet /\ \E id \in GenreIds : GenreDeleteGet(id)
  \/ Quiet /\ \E id \in GenreIds : \E genreid \in GenreIds : GenreDeletePost(id, genreid)
  \/ \E r \in Slots : GenreDeleteRemove(r)
  \/ Quiet /\ \E id \in GenreIds : GenreUpdateGet(id)
  \/ Quiet /\ \E id \in GenreIds : \E raw \in RawNames : GenreUpdatePost(id, raw)
  \/ Quiet /\ \E b \in BookIds : \E g \in GenreIds : AddBook(b, {g})
  \/ Quiet /\ \E b \in BookIds : RemoveBook(b)
  \/ Deliver

SeqSpec == Init /\ [][SeqNext]_vars

\* ------------------------------------------------------------ properties
FoldedEqual(a, b) ==
  /\ Len(a) = Len(b)
  /\ \A i \in 1..Len(a) :
       (IF a[i] \in 65..90 THEN a[i] + 32 ELSE a[i])
         = (IF b[i] \in 65..90 THEN b[i] + 32 ELSE b[i])

Referenced(g) == \E b \in books : g \in b.genre

NameOf(store, id) == store[CHOOSE i \in DOMAIN store : store[i].id = id].name

\* C1: no two Genre records have names that are equal when letter case is
\* ignored, in any state reachable by create, update and delete requests.
C1_NoDuplicateNames ==
  \A i, j \in DOMAIN genres :
    i # j => ~FoldedEqual(genres[i].name, genres[j].name)

\* C2, as stated: a create in isolation with a trimmed name of length >= 3
\* persists exactly one new Genre carrying the trimmed name and redirects to
\* it when no Genre has that name up to letter case; otherwise it leaves the
\* Genre collection alone and redirects to the Genre that has it.
C2_CreateWithSubmittedName ==
  [][(last'.op = "genre_create_post" /\ Len(Trim(last'.name)) >= 3) =>
      LET name == Trim(last'.name)
          existing == {i \in DOMAIN genres : FoldedEqual(genres[i].name, name)}
      IN IF existing = {}
         THEN /\ Len(genres') = Len(genres) + 1
              /\ SubSeq(genres', 1, Len(genres)) = genres
              /\ genres'[Len(genres')].name = name
              /\ genres'[Len(genres')].id \notin Ids(genres)
              /\ last'.resp = <<Redirect(GenreUrl(genres'[Len(genres')].id))>>
         ELSE /\ genres' = genres
              /\ \E i \in existing :
                   last'.resp = <<Redirect(GenreUrl(genres[i].id))>>]_vars

\* C2, amended: the same with the sanitized name (trimmed, then
\* HTML-escaped) in place of the submitted name, both in the lookup and in
\* the record that is persisted.
C2_CreateIsolated ==
  [][(last'.op = "genre_create_post" /\ Len(Trim(last'.name)) >= 3) =>
      LET name == Escape(Trim(last'.name))
          existing == {i \in DOMAIN genres : FoldedEqual(genres[i].name, name)}
      IN IF existing = {}
         THEN /\ Len(genres') = Len(genres) + 1
              /\ SubSeq(genres', 1, Len(genres)) = genres
              /\ genres'[Len(genres')].name = name
              /\ genres'[Len(genres')].id \notin Ids(genres)
              /\ last'.resp = <<Redirect(GenreUrl(genres'[Len(genres')].id))>>
         ELSE /\ genres' = genres
              /\ \E i \in existing :
                   last'.resp = <<Redirect(GenreUrl(genres[i].id))>>]_vars

\* a create of " ABC" answered with the existing "abc", beside an escaped name
C2_Witness ==
  /\ last.op = "genre_create_post"
  /\ last.name = <<32, 65, 66, 67>>
  /\ Len(last.resp) = 1
  /\ last.resp[1].kind = "redirect"
  /\ last.resp[1].id \in Ids(genres)
  /\ NameOf(genres, last.resp[1].id) = <<97, 98, 99>>
  /\ Cardinality({i \in DOMAIN genres : FoldedEqual(genres[i].name, <<97, 98, 99>>)}) = 1
  /\ \E i \in DOMAIN genres : genres[i].name = <<97, 38, 97, 109, 112, 59, 98>>

\* C3: a delete request removes the Genre named by the form field genreid
\* and redirects to the list when that Genre is stored and no Book references
\* it, and leaves the Genre collection alone and renders the confirmation
\* view when a Book does; run one at a time, no delete removes a Genre that
\* a Book references.
C3_DeleteGuarded ==
  [][last'.op = "genre_delete_post" =>
      /\ (last'.genreid \in Ids(genres) /\ ~Referenced(last'.genreid)) =>
           /\ last'.genreid \notin Ids(genres')
           /\ last'.resp = <<Redirect(ListUrl)>>
      /\ Referenced(last'.genreid) =>
           /\ genres' = genres
           /\ Len(last'.resp) = 1
           /\ last'.resp[1].kind = "render"
           /\ last'.resp[1].what = "genre_delete"
      /\ \A g \in Ids(genres) \ Ids(genres') : ~Referenced(g)]_vars

\* C4, as stated: after update(id, newName) with a trimmed newName of length
\* >= 3 the record id has name newName, the identifiers in the collection
\* are the same, and the response redirects to the detail URL of id.
C4_UpdateAnyId ==
  [][(last'.op = "genre_update_post" /\ Len(Trim(last'.name)) >= 3) =>
      /\ last'.id \in Ids(genres')
      /\ NameOf(genres', last'.id) = last'.name
      /\ Ids(genres') = Ids(genres)
      /\ last'.resp = <<Redirect(GenreUrl(last'.id))>>]_vars

\* C4, amended: when a Genre with identifier id exists, after the update the
\* record id has the sanitized newName (trimmed, then HTML-escaped), the
\* collection holds the same identifiers in as many records, and the
\* response redirects to the detail URL of id.
C4_UpdateInPlace ==
  [][(/\ last'.op = "genre_update_post"
      /\ Len(Trim(last'.name)) >= 3
      /\ last'.id \in Ids(genres)) =>
      /\ last'.id \in Ids(genres')
      /\ NameOf(genres', last'.id) = Escape(Trim(last'.name))
      /\ Ids(genres') = Ids(genres)
      /\ Len(genres') = Len(genres)
      /\ last'.resp = <<Redirect(GenreUrl(last'.id))>>]_vars

\* an update of the second of two Genres with "a&b", stored escaped
C4_Witness ==
  /\ last.op = "genre_update_post"
  /\ last.name = <<97, 38, 98>>
  /\ last.id = 2
  /\ last.resp = <<Redirect(GenreUrl(2))>>
  /\ Len(genres) = 2
  /\ NameOf(genres, 2) = <<97, 38, 97, 109, 112, 59, 98>>

\* C5: a create or update whose trimmed name is shorter than 3 characters
\* changes no Genre and answers with the genre form view and a non-empty
\* list of validation errors; the form of an update carries the submitted id.
C5_InvalidNameRejected ==
  [][(/\ last'.op \in {"genre_create_post", "genre_update_post"}
      /\ Len(Trim(last'.name)) < 3) =>
      /\ genres' = genres
      /\ Len(last'.resp) = 1
      /\ last'.resp[1].kind = "render"
      /\ last'.resp[1].what = "genre_form"
      /\ last'.resp[1].errors # <<>>
      /\ (last'.op = "genre_update_post" => last'.resp[1].id = last'.id)]_vars

\* an update of an existing Genre with " ab ": four characters, two trimmed
C5_Witness ==
  /\ last.op = "genre_update_post"
  /\ last.id \in Ids(genres)
  /\ Len(last.name) >= 3
  /\ Len(Trim(last.name)) < 3
  /\ last.resp[1].kind = "render"
  /\ last.resp[1].errors = <<ErrMsg>>
  /\ last.resp[1].id = last.id

\* C6: the delete form of an identifier no Genre has answers with a redirect
\* to the genre list and nothing else.
C6_DeleteFormAbsent ==
  (last.op = "genre_delete_get" /\ last.id \notin Ids(genres)) =>
    last.resp = <<Redirect(ListUrl)>>

\* C7: detail and the update form of an identifier no Genre has pass a 404
\* error to next and render nothing; of one a Genre has, they render their
\* view and pass no error.
C7_NotFound ==
  last.op \in {"genre_detail", "genre_update_get"} =>
    /\ Len(last.resp) = 1
    /\ IF last.id \in Ids(genres)
       THEN /\ last.resp[1].kind = "render"
            /\ last.resp[1].what =
                 (IF last.op = "genre_detail" THEN "genre_detail" ELSE "genre_form")
            /\ last.resp[1].id = last.id
       ELSE /\ last.resp[1].kind = "next"
            /\ last.resp[1].status = 404

\* detail of an identifier that is absent while another Genre is stored
C7_Witness ==
  /\ last.op = "genre_detail"
  /\ genres # <<>>
  /\ last.id \notin Ids(genres)
  /\ last.resp[1].kind = "next"
  /\ last.resp[1].status = 404

\* C8: list renders the genre list view with exactly the stored Genres, each
\* once, in ascending order of name.
C8_ListSorted ==
  last.op = "genre_list" =>
    /\ Len(last.resp) = 1
    /\ last.resp[1].kind = "render"
    /\ last.resp[1].what = "genre_list"
    /\ LET l == last.resp[1].list
       IN /\ Len(l) = Len(genres)
          /\ \A i \in DOMAIN genres :
               Cardinality({j \in DOMAIN l : l[j] = genres[i]}) = 1
          /\ \A i, j \in DOMAIN l :
               i < j => NameLeq(l[i].name, l[j].name)

\* a list of two Genres that were inserted in descending order of name
C8_Witness ==
  /\ last.op = "genre_list"
  /\ Len(genres) = 2
  /\ ~NameLeq(genres[1].name, genres[2].name)
  /\ last.resp[1].list = <<genres[2], genres[1]>>

\* C9: the second step of a delete removes the Genre whatever the Books say
\* by then, so a Book added after the check is left referencing a Genre
\* that no longer exists (C9_Witness).
C9_DeleteDoesNotRecheck ==
  [][\A r \in Slots :
       (inflight[r].op = "genre_delete_post" /\ inflight'[r] = Idle) =>
         /\ inflight[r].genreid \notin Ids(genres')
         /\ last'.resp = <<Redirect(ListUrl)>>]_vars

\* a delete of g, checked for g itself, has removed g and a Book references g
C9_Witness ==
  /\ last.op = "genre_delete_post"
  /\ last.id = last.genreid
  /\ last.resp = <<Redirect(ListUrl)>>
  /\ last.id \notin Ids(genres)
  /\ Referenced(last.id)

\* C10: every completed request made exactly one response call: one render,
\* one redirect, or one error passed to next.
C10_OneResponse ==
  last # NoLast =>
    /\ Len(last.resp) = 1
    /\ last.resp[1].kind \in {"render", "redirect", "next"}
====
